---- MODULE Spec2Model ----
(***************************************************************************)
(* Ledger consistency engine of loan-money: the loans and transactions     *)
(* tables, the transaction handlers CreateTransaction, UpdateTransaction   *)
(* and DeleteTransaction, and the loan handlers that share the tables.     *)
(* Amounts are exact numbers of satang (1/100 baht); binary floating point *)
(* rounding of the Go float64 values is not modelled.                      *)
(***************************************************************************)
EXTENDS Integers, FiniteSets, Sequences, TLC

\* ---------------------------------------------------------------- bounds
MaxLoans == 2
MaxTxns == 2
MaxAmt == 2
Unit == 50

Users == {1, 2}
LoanIds == 1..MaxLoans
TxnIds == 1..MaxTxns
Amounts == {k * Unit : k \in 1..MaxAmt}

\* the empty string sent as loan_id
NoLoan == 0
\* a path id or a loan_id that no row ever had
NoTxn == 0

Statuses == {"active", "completed", "overdue"}

VARIABLES db, issued, last, proc, removal

vars == <<db, issued, last, proc, removal>>

\* ------------------------------------------------------------ the tables
\* db.loans and db.transactions map the ids of the stored rows to the rows.
\* loans.deleted_at is never written by any handler and is always NULL.
LoanRow(u, amt, st) == [user_id |-> u, amount |-> amt, status |-> st]

TxnRow(l, amt, del) == [loan_id |-> l, amount |-> amt, deleted_at |-> del]

RECURSIVE SumOver(_, _)
SumOver(T, S) ==
  IF S = {} THEN 0
  ELSE LET t == CHOOSE x \in S : TRUE
       IN  T[t].amount + SumOver(T, S \ {t})

\* COALESCE(SUM(t.amount), 0) over t.loan_id = l AND t.deleted_at IS NULL
TotalPaid(D, l) ==
  SumOver(D.transactions,
          {t \in DOMAIN D.transactions :
             D.transactions[t].loan_id = l /\ ~D.transactions[t].deleted_at})

\* the sum without its t2.id != t.id
TotalPaidIncluding(D, l, x) ==
  SumOver(D.transactions,
          {t \in DOMAIN D.transactions :
             D.transactions[t].loan_id = l /\ ~D.transactions[t].deleted_at})

\* the same sum leaving out transaction x (t2.id != t.id)
TotalPaidExcluding(D, l, x) ==
  SumOver(D.transactions,
          {t \in DOMAIN D.transactions :
             /\ D.transactions[t].loan_id = l
             /\ ~D.transactions[t].deleted_at
             /\ t # x})

\* fmt.Sprintf("%.2f", x) of an amount of x satang: baht and two digits
Fmt2(x) == <<x \div 100, x % 100>>

\* ------------------------------------------------------- SQL statements
InsertLoan(D, id, u, amt) ==
  [D EXCEPT !.loans = [l \in DOMAIN D.loans \cup {id} |->
                         IF l = id THEN LoanRow(u, amt, "active") ELSE D.loans[l]]]

InsertTransaction(D, id, l, amt) ==
  [D EXCEPT !.transactions = [t \in DOMAIN D.transactions \cup {id} |->
                         IF t = id THEN TxnRow(l, amt, FALSE) ELSE D.transactions[t]]]

\* a completion that also clears the amount of the loan
SetLoanCompletedCleared(D, l) ==
  IF l \in DOMAIN D.loans
  THEN [D EXCEPT !.loans[l].status = "completed", !.loans[l].amount = 0]
  ELSE D

\* UPDATE loans SET status = 'completed' WHERE id = l
SetLoanCompleted(D, l) ==
  IF l \in DOMAIN D.loans
  THEN [D EXCEPT !.loans[l].status = "completed"]
  ELSE D

\* the revert without AND status = 'completed'
RevertLoanActiveAlways(D, l) ==
  IF l \in DOMAIN D.loans
  THEN [D EXCEPT !.loans[l].status = "active"]
  ELSE D

\* UPDATE loans SET status = 'active' WHERE id = l AND status = 'completed'
RevertLoanActive(D, l) ==
  IF l \in DOMAIN D.loans /\ D.loans[l].status = "completed"
  THEN [D EXCEPT !.loans[l].status = "active"]
  ELSE D

\* a rollback that leaves the writes made so far in the tables
RollbackKeepsWrites(committed, work) == work

\* defer tx.Rollback(): the writes of the database transaction are dropped
Rollback(committed, work) == committed

\* tx.Commit(): the writes of the database transaction become visible
Commit(committed, work) == work

\* UPDATE transactions SET loan_id = l, amount = amt, ... WHERE id = t
UpdateTransactionRow(D, t, l, amt) ==
  IF t \in DOMAIN D.transactions
  THEN [D EXCEPT !.transactions[t].loan_id = l, !.transactions[t].amount = amt]
  ELSE D

\* UPDATE transactions SET deleted_at = now WHERE id = t
SoftDeleteTransaction(D, t) ==
  IF t \in DOMAIN D.transactions
  THEN [D EXCEPT !.transactions[t].deleted_at = TRUE]
  ELSE D

\* DELETE FROM transactions WHERE loan_id = l
DeleteTransactionsOfLoan(D, l) ==
  [D EXCEPT !.transactions =
     [t \in {x \in DOMAIN D.transactions : D.transactions[x].loan_id # l} |->
        D.transactions[t]]]

\* a delete of the loan row that finds no row
DeleteLoanRowMissed(D, l, u) == D

\* DELETE FROM loans WHERE id = l AND user_id = u
DeleteLoanRow(D, l, u) ==
  [D EXCEPT !.loans =
     [x \in {y \in DOMAIN D.loans : ~(y = l /\ D.loans[y].user_id = u)} |->
        D.loans[x]]]

\* UPDATE loans SET amount = amt, ... WHERE id = l AND user_id = u
UpdateLoanRow(D, l, u, amt) ==
  IF l \in DOMAIN D.loans /\ D.loans[l].user_id = u
  THEN [D EXCEPT !.loans[l].amount = amt]
  ELSE D

\* UPDATE loans SET status = st, ... WHERE id = l AND user_id = u
UpdateLoanStatusRow(D, l, u, st) ==
  IF l \in DOMAIN D.loans /\ D.loans[l].user_id = u
  THEN [D EXCEPT !.loans[l].status = st]
  ELSE D

\* a foreign key that is declared and never enforced
ForeignKeyUnchecked(D) == TRUE

\* transactions.loan_id REFERENCES loans(id): no row points at a missing loan
ForeignKeyHolds(D) ==
  \A t \in DOMAIN D.transactions : D.transactions[t].loan_id \in DOMAIN D.loans

\* uuid.New() / gen_random_uuid(): an id no row ever had
NewId(n) == n + 1

\* the amount test with < in place of <=
InvalidAmountNegative(amt) == amt < 0

\* if req.Amount <= 0: "Amount must be greater than 0"
InvalidAmount(amt) == amt <= 0

\* the fully-paid test with < in place of <=
AlreadyPaidStrict(remainingDebt) == remainingDebt < 0

\* if remainingDebt <= 0: "This loan is already fully paid"
AlreadyPaid(remainingDebt) == remainingDebt <= 0

\* the limit test with >= in place of >
ExceedsOrReaches(amt, remainingDebt) == amt >= remainingDebt

\* if req.Amount > remainingDebt: "Payment amount ... exceeds remaining debt ..."
ExceedsRemaining(amt, remainingDebt) == amt > remainingDebt

\* the completion test with > in place of >=
CreateStatusWriteStrict(D, l, newTotalPaid, loanAmount) ==
  IF newTotalPaid > loanAmount THEN SetLoanCompleted(D, l) ELSE D

\* CreateTransaction: the loan is completed when the new total reaches the principal
CreateStatusWrite(D, l, newTotalPaid, loanAmount) ==
  IF newTotalPaid >= loanAmount THEN SetLoanCompleted(D, l) ELSE D

\* UpdateTransaction: completed when fully paid, else a completed loan is reverted
UpdateStatusWrite(D, l, newTotalPaid, loanAmount) ==
  IF newTotalPaid >= loanAmount THEN SetLoanCompleted(D, l) ELSE RevertLoanActive(D, l)

\* the revert without its AND status = 'completed'
DeleteStatusWriteAlwaysActive(D, l, newTotalPaid, loanAmount) ==
  IF newTotalPaid >= loanAmount THEN SetLoanCompleted(D, l)
  ELSE IF l \in DOMAIN D.loans THEN [D EXCEPT !.loans[l].status = "active"] ELSE D

\* DeleteTransaction: completed when still fully paid, else a completed loan is reverted
DeleteStatusWrite(D, l, newTotalPaid, loanAmount) ==
  IF newTotalPaid >= loanAmount THEN SetLoanCompleted(D, l) ELSE RevertLoanActive(D, l)

\* ------------------------------------------------------------ responses
\* last is the response being written to the client: respondWithError carries
\* a status code and a message, respondWithJSON the ids and the amount of the
\* row the handler worked on. Idle when no request is being served.
Resp(op, l, t, amt, code, err, args) ==
  [op |-> op, loan |-> l, txn |-> t, amount |-> amt,
   code |-> code, err |-> err, args |-> args]

NoArgs == <<>>

Error(op, code, err, args) == Resp(op, NoLoan, NoTxn, 0, code, err, args)

Idle == Resp("none", NoLoan, NoTxn, 0, 0, "", NoArgs)

\* one way a handler can end: the tables, the ids issued and the response
Out(D, I, r) == [db |-> D, issued |-> I, resp |-> r]

\* the two requests that are served at the same time
Procs == {1, 2}

\* the locals of a CreateTransaction call that is under way, and where it is
Local(pc, l, amt, loanAmountCheck, currentTotalPaid, transactionID, locked, resp) ==
  [pc |-> pc, loan |-> l, amount |-> amt, loanAmountCheck |-> loanAmountCheck,
   currentTotalPaid |-> currentTotalPaid, transactionID |-> transactionID,
   locked |-> locked, resp |-> resp]

NoCall == Local("idle", NoLoan, 0, 0, 0, NoTxn, FALSE, Idle)

\* the locals of a DeleteLoan call that is under way: the caller, the loan,
\* the transactions and the loan row it has deleted and not committed yet
Removal(pc, u, l, gone, rowGone, resp) ==
  [pc |-> pc, user |-> u, loan |-> l, gone |-> gone, rowGone |-> rowGone,
   resp |-> resp]

NoRemoval == Removal("idle", 0, NoLoan, {}, FALSE, Idle)

\* a return before h.db.Begin that has marked the loans completed first
RejectedAfterWrite(D, I, r) ==
  Out([D EXCEPT !.loans = [l \in DOMAIN D.loans |->
                             [D.loans[l] EXCEPT !.status = "completed"]]], I, r)

\* respondWithError and return before h.db.Begin: nothing was written
Rejected(D, I, r) == Out(D, I, r)

Init ==
  /\ db = [loans |-> <<>>, transactions |-> <<>>]
  /\ issued = [loan |-> 0, txn |-> 0]
  /\ last = Idle
  /\ proc = [p \in Procs |-> NoCall]
  /\ removal = NoRemoval

\* the handler ends in outcome o: its writes are in the tables and its
\* response is being written
Deliver(o) ==
  /\ db' = o.db
  /\ issued' = o.issued
  /\ last' = o.resp
  /\ UNCHANGED <<proc, removal>>

\* the handler returns after writing its response
Respond ==
  /\ last # Idle
  /\ last' = Idle
  /\ UNCHANGED <<db, issued, proc, removal>>

\* ------------------------------------------------------------ CreateLoan
CreateLoanOutcomes(D, I, u, amt) ==
  LET fail(code, err) == {Out(D, I, Error("CreateLoan", code, err, NoArgs))}
      id == NewId(I.loan)
  IN  IF amt <= 0 THEN fail(400, "Amount must be greater than 0")
      ELSE fail(500, "Failed to create loan")
           \cup IF I.loan < MaxLoans
                THEN {Out(InsertLoan(D, id, u, amt), [I EXCEPT !.loan = id],
                          Resp("CreateLoan", id, NoTxn, amt, 201, "", NoArgs))}
                ELSE {}

CreateLoan(u, amt) ==
  /\ last = Idle
  /\ \E o \in CreateLoanOutcomes(db, issued, u, amt) : Deliver(o)

\* ----------------------------------------------------- CreateTransaction
\* WHERE l.id = $1 AND l.user_id = $2 (AND l.deleted_at IS NULL)
OwnedLoan(D, l, u) == l \in DOMAIN D.loans /\ D.loans[l].user_id = u

CreateTransactionOutcomes(D, I, u, l, amt) ==
  LET fail(code, err, args) == {Rejected(D, I, Error("CreateTransaction", code, err, args))}
      abort(work, err) == {Out(Rollback(D, work), I,
                               Error("CreateTransaction", 500, err, NoArgs))}
  IN
  IF l = NoLoan THEN fail(400, "Loan ID is required", NoArgs)
  ELSE IF InvalidAmount(amt) THEN fail(400, "Amount must be greater than 0", NoArgs)
  ELSE
    fail(500, "Failed to verify loan", NoArgs)
    \cup
    IF ~OwnedLoan(D, l, u) THEN fail(400, "Loan not found or access denied", NoArgs)
    ELSE
      LET loanAmountCheck == D.loans[l].amount
          currentTotalPaid == TotalPaid(D, l)
          remainingDebt == loanAmountCheck - currentTotalPaid
          transactionID == NewId(I.txn)
          newTotalPaid == currentTotalPaid + amt
          w1 == InsertTransaction(D, transactionID, l, amt)
          w2 == CreateStatusWrite(w1, l, newTotalPaid, loanAmountCheck)
      IN
      IF AlreadyPaid(remainingDebt)
      THEN fail(400, "This loan is already fully paid", NoArgs)
      ELSE IF ExceedsRemaining(amt, remainingDebt)
      THEN fail(400, "Payment amount exceeds remaining debt",
                <<Fmt2(amt), Fmt2(remainingDebt)>>)
      ELSE
        fail(400, "Invalid payment date format", NoArgs)
        \cup fail(500, "Failed to begin transaction", NoArgs)
        \cup
        IF I.txn < MaxTxns
        THEN abort(D, "Failed to create transaction")
             \cup (IF w2 # w1 THEN abort(w1, "Failed to update loan status") ELSE {})
             \cup abort(w2, "Failed to commit transaction")
             \cup {Out(Commit(D, w2), [I EXCEPT !.txn = transactionID],
                       Resp("CreateTransaction", l, transactionID, amt, 201, "", NoArgs)),
                   Out(Commit(D, w2), [I EXCEPT !.txn = transactionID],
                       Error("CreateTransaction", 500,
                             "Failed to fetch created transaction", NoArgs))}
        ELSE {}

CreateTransaction(u, l, amt) ==
  /\ last = Idle
  /\ \E o \in CreateTransactionOutcomes(db, issued, u, l, amt) : Deliver(o)

\* ----------------------------------------------------- UpdateTransaction
\* the join without its AND t.deleted_at IS NULL
OwnedTransactionOrDeleted(D, t, u) ==
  /\ t \in DOMAIN D.transactions
  /\ D.transactions[t].loan_id \in DOMAIN D.loans
  /\ D.loans[D.transactions[t].loan_id].user_id = u

\* WHERE t.id = $1 AND l.user_id = $2 AND t.deleted_at IS NULL (joined on loan)
OwnedTransaction(D, t, u) ==
  /\ t \in DOMAIN D.transactions
  /\ ~D.transactions[t].deleted_at
  /\ D.transactions[t].loan_id \in DOMAIN D.loans
  /\ D.loans[D.transactions[t].loan_id].user_id = u

UpdateTransactionOutcomes(D, I, u, t, l, amt) ==
  LET fail(code, err, args) == {Rejected(D, I, Error("UpdateTransaction", code, err, args))}
      abort(work, err) == {Out(Rollback(D, work), I,
                               Error("UpdateTransaction", 500, err, NoArgs))}
  IN
  IF l = NoLoan THEN fail(400, "Loan ID is required", NoArgs)
  ELSE IF InvalidAmount(amt) THEN fail(400, "Amount must be greater than 0", NoArgs)
  ELSE
    fail(500, "Failed to verify transaction", NoArgs)
    \cup
    IF ~OwnedTransaction(D, t, u)
    THEN fail(404, "Transaction not found or access denied", NoArgs)
    ELSE
      LET own == D.transactions[t].loan_id
          loanAmountUpdate == D.loans[own].amount
          currentTotalPaidUpdate == TotalPaidExcluding(D, own, t)
          remainingDebtUpdate == loanAmountUpdate - currentTotalPaidUpdate
          newTotalPaidUpdate == currentTotalPaidUpdate + amt
          w1 == UpdateTransactionRow(D, t, l, amt)
          w2 == UpdateStatusWrite(w1, l, newTotalPaidUpdate, loanAmountUpdate)
      IN
      fail(500, "Failed to get transaction details", NoArgs)
      \cup
      IF AlreadyPaid(remainingDebtUpdate)
      THEN fail(400, "This loan is already fully paid", NoArgs)
      ELSE IF ExceedsRemaining(amt, remainingDebtUpdate)
      THEN fail(400, "Payment amount exceeds remaining debt",
                <<Fmt2(amt), Fmt2(remainingDebtUpdate)>>)
      ELSE
        fail(400, "Invalid payment date format", NoArgs)
        \cup fail(500, "Failed to begin transaction", NoArgs)
        \cup
        IF ~ForeignKeyHolds(w1) THEN abort(D, "Failed to update transaction")
        ELSE abort(D, "Failed to update transaction")
             \cup abort(w1, IF newTotalPaidUpdate >= loanAmountUpdate
                            THEN "Failed to update loan status"
                            ELSE "Failed to revert loan status")
             \cup abort(w2, "Failed to commit transaction")
             \cup {Out(Commit(D, w2), I,
                       Resp("UpdateTransaction", l, t, amt, 200, "", NoArgs)),
                   Out(Commit(D, w2), I,
                       Error("UpdateTransaction", 500,
                             "Failed to fetch updated transaction", NoArgs))}

UpdateTransaction(u, t, l, amt) ==
  /\ last = Idle
  /\ \E o \in UpdateTransactionOutcomes(db, issued, u, t, l, amt) : Deliver(o)

\* ----------------------------------------------------- DeleteTransaction
DeleteTransactionOutcomes(D, I, u, t) ==
  LET fail(code, err) == {Out(D, I, Error("DeleteTransaction", code, err, NoArgs))}
      abort(work, err) == {Out(Rollback(D, work), I,
                               Error("DeleteTransaction", 500, err, NoArgs))}
  IN
  fail(500, "Failed to get transaction details")
  \cup
  IF ~OwnedTransaction(D, t, u)
  THEN fail(404, "Transaction not found or access denied")
  ELSE
    LET loanID == D.transactions[t].loan_id
        transactionAmount == D.transactions[t].amount
        loanAmountDelete == D.loans[loanID].amount
        currentTotalPaidDelete == TotalPaid(D, loanID)
        newTotalPaidDelete == currentTotalPaidDelete - transactionAmount
        w1 == SoftDeleteTransaction(D, t)
        w2 == DeleteStatusWrite(w1, loanID, newTotalPaidDelete, loanAmountDelete)
    IN
    fail(500, "Failed to begin transaction")
    \cup abort(D, "Failed to delete transaction")
    \cup abort(w1, "Failed to update loan status")
    \cup abort(w2, "Failed to commit transaction")
    \cup {Out(Commit(D, w2), I,
              Resp("DeleteTransaction", loanID, t, transactionAmount, 200, "", NoArgs))}

DeleteTransaction(u, t) ==
  /\ last = Idle
  /\ \E o \in DeleteTransactionOutcomes(db, issued, u, t) : Deliver(o)

\* ------------------------------------------------------------ DeleteLoan
DeleteLoanOutcomes(D, I, u, l) ==
  LET fail(code, err) == {Out(D, I, Error("DeleteLoan", code, err, NoArgs))}
      abort(work, err) == {Out(Rollback(D, work), I,
                               Error("DeleteLoan", 500, err, NoArgs))}
      w1 == DeleteTransactionsOfLoan(D, l)
      w2 == DeleteLoanRow(w1, l, u)
  IN
  fail(500, "Failed to verify loan ownership")
  \cup
  IF ~OwnedLoan(D, l, u) THEN fail(404, "Loan not found")
  ELSE
    fail(500, "Failed to begin transaction")
    \cup abort(D, "Failed to delete related transactions")
    \cup
    IF ~ForeignKeyHolds(w2) THEN abort(w1, "Failed to delete loan")
    ELSE abort(w1, "Failed to delete loan")
         \cup abort(w2, "Failed to commit transaction")
         \cup {Out(Commit(D, w2), I, Resp("DeleteLoan", l, NoTxn, 0, 200, "", NoArgs))}

DeleteLoan(u, l) ==
  /\ last = Idle
  /\ \E o \in DeleteLoanOutcomes(db, issued, u, l) : Deliver(o)

\* ------------------------------------------------------------ UpdateLoan
UpdateLoanOutcomes(D, I, u, l, amt) ==
  LET fail(code, err) == {Out(D, I, Error("UpdateLoan", code, err, NoArgs))}
  IN
  IF amt <= 0 THEN fail(400, "Amount must be greater than 0")
  ELSE
    fail(500, "Failed to verify loan ownership")
    \cup
    IF ~OwnedLoan(D, l, u) THEN fail(404, "Loan not found")
    ELSE fail(500, "Failed to update loan")
         \cup {Out(UpdateLoanRow(D, l, u, amt), I,
                   Resp("UpdateLoan", l, NoTxn, amt, 200, "", NoArgs))}

UpdateLoan(u, l, amt) ==
  /\ last = Idle
  /\ \E o \in UpdateLoanOutcomes(db, issued, u, l, amt) : Deliver(o)

\* ------------------------------------------------------ UpdateLoanStatus
UpdateLoanStatusOutcomes(D, I, u, l, st) ==
  LET fail(code, err) == {Out(D, I, Error("UpdateLoanStatus", code, err, NoArgs))}
  IN
  IF st # "active" /\ st # "completed" /\ st # "overdue"
  THEN fail(400, "Status must be either 'active', 'completed', or 'overdue'")
  ELSE
    fail(500, "Failed to verify loan ownership")
    \cup
    IF ~OwnedLoan(D, l, u) THEN fail(404, "Loan not found")
    ELSE fail(500, "Failed to update loan status")
         \cup {Out(UpdateLoanStatusRow(D, l, u, st), I,
                   Resp("UpdateLoanStatus", l, NoTxn, 0, 200, "", <<st>>))}

UpdateLoanStatus(u, l, st) ==
  /\ last = Idle
  /\ \E o \in UpdateLoanStatusOutcomes(db, issued, u, l, st) : Deliver(o)

\* ------------------------------------------------------- GetLoan, GetLoans
\* COALESCE(SUM(t.amount), 0) over LEFT JOIN transactions t ON l.id = t.loan_id
JoinedTotalPaid(D, l) ==
  SumOver(D.transactions,
          {t \in DOMAIN D.transactions : D.transactions[t].loan_id = l})

\* models.LoanResponse: the loan row with TotalPaid and RemainingDebt
LoanResponse(D, l) ==
  [status |-> D.loans[l].status,
   amount |-> D.loans[l].amount,
   total_paid |-> JoinedTotalPaid(D, l),
   remaining_debt |-> D.loans[l].amount - JoinedTotalPaid(D, l)]

\* a read that marks the loan it returns overdue
GetLoanOutcomesMarking(D, I, u, l) ==
  {Out(D, I, Error("GetLoan", 500, "Failed to retrieve loan", NoArgs))}
  \cup
  IF ~OwnedLoan(D, l, u)
  THEN {Out(D, I, Error("GetLoan", 404, "Loan not found", NoArgs))}
  ELSE {Out(UpdateLoanStatusRow(D, l, u, "overdue"), I,
            Resp("GetLoan", l, NoTxn, 0, 200, "", LoanResponse(D, l)))}

GetLoanOutcomes(D, I, u, l) ==
  {Out(D, I, Error("GetLoan", 500, "Failed to retrieve loan", NoArgs))}
  \cup
  IF ~OwnedLoan(D, l, u)
  THEN {Out(D, I, Error("GetLoan", 404, "Loan not found", NoArgs))}
  ELSE {Out(D, I, Resp("GetLoan", l, NoTxn, 0, 200, "", LoanResponse(D, l)))}

GetLoan(u, l) ==
  /\ last = Idle
  /\ \E o \in GetLoanOutcomes(db, issued, u, l) : Deliver(o)

GetLoansOutcomes(D, I, u) ==
  {Out(D, I, Error("GetLoans", 500, "Failed to retrieve loans", NoArgs)),
   Out(D, I, Resp("GetLoans", NoLoan, NoTxn, 0, 200, "",
                  [l \in {x \in DOMAIN D.loans : D.loans[x].user_id = u} |->
                     LoanResponse(D, l)]))}

GetLoans(u) ==
  /\ last = Idle
  /\ \E o \in GetLoansOutcomes(db, issued, u) : Deliver(o)

\* ------------------- GetTransaction, GetTransactions, GetTransactionsByLoan
\* FROM transactions t INNER JOIN loans l ON t.loan_id = l.id
\* WHERE l.user_id = u AND t.deleted_at IS NULL
VisibleTransactions(D, u) ==
  {t \in DOMAIN D.transactions :
     /\ D.transactions[t].loan_id \in DOMAIN D.loans
     /\ D.loans[D.transactions[t].loan_id].user_id = u
     /\ ~D.transactions[t].deleted_at}

GetTransactionOutcomes(D, I, u, t) ==
  {Out(D, I, Error("GetTransaction", 500, "Failed to fetch transaction", NoArgs))}
  \cup
  IF t \notin VisibleTransactions(D, u)
  THEN {Out(D, I, Error("GetTransaction", 404, "Transaction not found", NoArgs))}
  ELSE {Out(D, I, Resp("GetTransaction", D.transactions[t].loan_id, t,
                       D.transactions[t].amount, 200, "", NoArgs))}

GetTransaction(u, t) ==
  /\ last = Idle
  /\ \E o \in GetTransactionOutcomes(db, issued, u, t) : Deliver(o)

\* the page of the caller's transactions, of loan l when the loan_id filter is
\* sent (NoLoan: no filter); a page holds every transaction of the model
GetTransactionsOutcomes(D, I, u, l) ==
  {Out(D, I, Error("GetTransactions", 500, "Failed to count transactions", NoArgs)),
   Out(D, I, Error("GetTransactions", 500, "Failed to fetch transactions", NoArgs)),
   Out(D, I, Resp("GetTransactions", l, NoTxn, 0, 200, "",
                  {t \in VisibleTransactions(D, u) :
                     l = NoLoan \/ D.transactions[t].loan_id = l}))}

GetTransactions(u, l) ==
  /\ last = Idle
  /\ \E o \in GetTransactionsOutcomes(db, issued, u, l) : Deliver(o)

GetTransactionsByLoanOutcomes(D, I, u, l) ==
  LET fail(code, err) == {Out(D, I, Error("GetTransactionsByLoan", code, err, NoArgs))}
  IN
  fail(500, "Failed to verify loan")
  \cup
  IF ~OwnedLoan(D, l, u) THEN fail(404, "Loan not found or access denied")
  ELSE fail(500, "Failed to count transactions")
       \cup fail(500, "Failed to fetch transactions")
       \cup {Out(D, I, Resp("GetTransactionsByLoan", l, NoTxn, 0, 200, "",
                            {t \in DOMAIN D.transactions :
                               /\ D.transactions[t].loan_id = l
                               /\ ~D.transactions[t].deleted_at}))}

GetTransactionsByLoan(u, l) ==
  /\ last = Idle
  /\ \E o \in GetTransactionsByLoanOutcomes(db, issued, u, l) : Deliver(o)

\* ------------------------------------------------------------- requests
\* The requests sent: every well-formed combination of ids and amounts, and
\* one malformed body of each kind (empty loan_id, amount 0, unknown status).
\* Users are numbered in the order of their first loan.
PaymentBodies ==
  (LoanIds \X Amounts) \cup {<<NoLoan, Unit>>, <<1, 0>>}

ReqStatuses == Statuses \cup {"paid"}

RecordPayment ==
  \E u \in Users, b \in PaymentBodies : CreateTransaction(u, b[1], b[2])

AmendPayment ==
  \E u \in Users, t \in TxnIds, b \in PaymentBodies :
    UpdateTransaction(u, t, b[1], b[2])

RevokePayment ==
  \E u \in Users, t \in TxnIds : DeleteTransaction(u, t)

RemoveLoan ==
  \E u \in Users, l \in LoanIds : DeleteLoan(u, l)

NewLoan ==
  \E u \in Users, amt \in Amounts \cup {0} :
    /\ u <= issued.loan + 1
    /\ CreateLoan(u, amt)

EditLoan ==
  \E u \in Users, l \in LoanIds, amt \in Amounts \cup {0} : UpdateLoan(u, l, amt)

EditLoanStatus ==
  \E u \in Users, l \in LoanIds, st \in ReqStatuses : UpdateLoanStatus(u, l, st)

ReadLoan ==
  \E u \in Users, l \in LoanIds : GetLoan(u, l)

ReadLoans ==
  \E u \in Users : GetLoans(u)

\* the ledger engine: payments recorded, amended and revoked on new loans
Next ==
  \/ NewLoan
  \/ RecordPayment
  \/ AmendPayment
  \/ RevokePayment
  \/ Respond

Spec == Init /\ [][Next]_vars

\* the ledger engine and the status endpoint of the loan handler
NextStatus ==
  \/ Next
  \/ EditLoanStatus

SpecStatus == Init /\ [][NextStatus]_vars

\* the ledger engine and the loan read paths
NextRead ==
  \/ Next
  \/ ReadLoan
  \/ ReadLoans

SpecRead == Init /\ [][NextRead]_vars

\* every handler of the loan and transaction routes
NextAll ==
  \/ Next
  \/ RemoveLoan
  \/ EditLoan
  \/ EditLoanStatus
  \/ ReadLoan
  \/ ReadLoans

SpecAll == Init /\ [][NextAll]_vars

ReadTransaction ==
  \E u \in Users, t \in TxnIds : GetTransaction(u, t)

ReadTransactions ==
  \E u \in Users, l \in LoanIds \cup {NoLoan} : GetTransactions(u, l)

ReadLoanTransactions ==
  \E u \in Users, l \in LoanIds : GetTransactionsByLoan(u, l)

\* a loan is created when the caller has removed the one before
NextLoanAfter ==
  /\ DOMAIN db.loans = {}
  /\ NewLoan

\* loans that are paid, removed and read, one loan at a time
NextGone ==
  \/ NextLoanAfter
  \/ RecordPayment
  \/ AmendPayment
  \/ RevokePayment
  \/ RemoveLoan
  \/ ReadLoan
  \/ ReadLoans
  \/ ReadTransaction
  \/ ReadTransactions
  \/ ReadLoanTransactions
  \/ Respond

SpecGone == Init /\ [][NextGone]_vars

\* the ledger of one loan: its payments, its principal and its status
FirstLoan ==
  /\ issued.loan = 0
  /\ NewLoan

NextLoan ==
  \/ FirstLoan
  \/ RecordPayment
  \/ AmendPayment
  \/ RevokePayment
  \/ EditLoan
  \/ EditLoanStatus
  \/ Respond

SpecLoan == Init /\ [][NextLoan]_vars

\* the ledger of one loan whose principal is edited
NextPrincipal ==
  \/ FirstLoan
  \/ RecordPayment
  \/ AmendPayment
  \/ RevokePayment
  \/ EditLoan
  \/ Respond

SpecPrincipal == Init /\ [][NextPrincipal]_vars

\* the ledger of one loan whose status is set by its owner
NextMark ==
  \/ FirstLoan
  \/ RecordPayment
  \/ AmendPayment
  \/ RevokePayment
  \/ EditLoanStatus
  \/ Respond

SpecMark == Init /\ [][NextMark]_vars

\* ------------------------------------- CreateTransaction, step by step
\* Two calls of CreateTransaction on one loan, each taking one statement at a
\* time.  The check query runs on the connection pool, outside the database
\* transaction; the insert and the status update run inside it and are seen
\* by the other call from the commit on.  db holds the committed rows.
SharedLoan == 1

Ended(c, code, err, args) ==
  Local("done", c.loan, c.amount, 0, 0, NoTxn, FALSE,
        Error("CreateTransaction", code, err, args))

\* the rows the call has written inside its database transaction, on top of D
Work(D, c) ==
  LET w1 == InsertTransaction(D, c.transactionID, c.loan, c.amount)
  IN  IF c.locked THEN SetLoanCompleted(w1, c.loan) ELSE w1

\* another call has updated the row of loan l and has not committed yet
RowLocked(p, l) ==
  \/ \E q \in Procs \ {p} : proc[q].locked /\ proc[q].loan = l
  \/ removal.rowGone /\ removal.loan = l

\* the check query: the principal and the total of the non-deleted transactions
ReadTotals(p, u, amt) ==
  /\ proc[p].pc = "idle"
  /\ LET l == SharedLoan
         c == Local("check", l, amt, 0, 0, NoTxn, FALSE, Idle)
     IN  \/ proc' = [proc EXCEPT ![p] = Ended(c, 500, "Failed to verify loan", NoArgs)]
         \/ /\ ~OwnedLoan(db, l, u)
            /\ proc' = [proc EXCEPT ![p] =
                          Ended(c, 400, "Loan not found or access denied", NoArgs)]
         \/ /\ OwnedLoan(db, l, u)
            /\ proc' = [proc EXCEPT ![p] =
                          Local("check", l, amt, db.loans[l].amount, TotalPaid(db, l),
                                NoTxn, FALSE, Idle)]
  /\ UNCHANGED <<db, issued, last, removal>>

\* the two tests on the remaining debt that was read
CheckRemaining(p) ==
  /\ proc[p].pc = "check"
  /\ LET c == proc[p]
         remainingDebt == c.loanAmountCheck - c.currentTotalPaid
     IN  proc' = [proc EXCEPT ![p] =
                    IF AlreadyPaid(remainingDebt)
                    THEN Ended(c, 400, "This loan is already fully paid", NoArgs)
                    ELSE IF ExceedsRemaining(c.amount, remainingDebt)
                    THEN Ended(c, 400, "Payment amount exceeds remaining debt",
                               <<Fmt2(c.amount), Fmt2(remainingDebt)>>)
                    ELSE [c EXCEPT !.pc = "begin"]]
  /\ UNCHANGED <<db, issued, last, removal>>

\* the payment date, h.db.Begin and the INSERT INTO transactions; the foreign
\* key makes the insert wait for a call that has deleted the loan row and has
\* not committed yet, and fail when the loan row is gone
BeginInsert(p) ==
  /\ proc[p].pc = "begin"
  /\ LET c == proc[p]
         transactionID == NewId(issued.txn)
         newTotalPaid == c.currentTotalPaid + c.amount
     IN  \/ /\ \E err \in {"Invalid payment date format"} :
                 proc' = [proc EXCEPT ![p] = Ended(c, 400, err, NoArgs)]
            /\ UNCHANGED issued
         \/ /\ \E err \in {"Failed to begin transaction", "Failed to create transaction"} :
                 proc' = [proc EXCEPT ![p] = Ended(c, 500, err, NoArgs)]
            /\ UNCHANGED issued
         \/ /\ issued.txn < MaxTxns
            /\ ~(removal.rowGone /\ removal.loan = c.loan)
            /\ ForeignKeyHolds(InsertTransaction(db, transactionID, c.loan, c.amount))
            /\ issued' = [issued EXCEPT !.txn = transactionID]
            /\ proc' = [proc EXCEPT ![p] =
                          [c EXCEPT !.transactionID = transactionID,
                                    !.pc = IF newTotalPaid >= c.loanAmountCheck
                                           THEN "status" ELSE "commit"]]
  /\ UNCHANGED <<db, last, removal>>

\* UPDATE loans SET status = 'completed': waits while the row is locked
StatusStep(p) ==
  /\ proc[p].pc = "status"
  /\ LET c == proc[p]
     IN  \/ proc' = [proc EXCEPT ![p] = Ended(c, 500, "Failed to update loan status", NoArgs)]
         \/ /\ ~RowLocked(p, c.loan)
            /\ proc' = [proc EXCEPT ![p] = [c EXCEPT !.locked = TRUE, !.pc = "commit"]]
  /\ UNCHANGED <<db, issued, last, removal>>

\* tx.Commit and the query that fetches the created transaction
CommitStep(p) ==
  /\ proc[p].pc = "commit"
  /\ LET c == proc[p]
         work == Work(db, c)
     IN  \/ /\ db' = Rollback(db, work)
            /\ proc' = [proc EXCEPT ![p] = Ended(c, 500, "Failed to commit transaction", NoArgs)]
         \/ /\ db' = Commit(db, work)
            /\ \/ proc' = [proc EXCEPT ![p] =
                             Local("done", c.loan, c.amount, 0, 0, NoTxn, FALSE,
                                   Resp("CreateTransaction", c.loan, c.transactionID,
                                        c.amount, 201, "", NoArgs))]
               \/ proc' = [proc EXCEPT ![p] =
                             Ended(c, 500, "Failed to fetch created transaction", NoArgs)]
  /\ UNCHANGED <<issued, last, removal>>

\* the call returns
Return(p) ==
  /\ proc[p].pc = "done"
  /\ proc' = [proc EXCEPT ![p] = NoCall]
  /\ UNCHANGED <<db, issued, last, removal>>

ReadStep == \E p \in Procs, u \in Users, amt \in Amounts : ReadTotals(p, u, amt)

CheckStep == \E p \in Procs : CheckRemaining(p)

InsertStep == \E p \in Procs : BeginInsert(p)

UpdateStep == \E p \in Procs : StatusStep(p)

CommitTx == \E p \in Procs : CommitStep(p)

ReturnStep == \E p \in Procs : Return(p)

\* payments recorded at the same time on a loan
NextConc ==
  \/ NewLoan
  \/ Respond
  \/ ReadStep
  \/ CheckStep
  \/ InsertStep
  \/ UpdateStep
  \/ CommitTx
  \/ ReturnStep

SpecConc == Init /\ [][NextConc]_vars

\* ------------------------------------------------ DeleteLoan, step by step
\* A call of DeleteLoan on the loan, one statement at a time, next to the
\* calls of CreateTransaction above.
\* DELETE FROM transactions WHERE loan_id = l, as run earlier in the database
\* transaction: the rows S it found are gone
DeleteRows(D, S) ==
  [D EXCEPT !.transactions =
     [t \in DOMAIN D.transactions \ S |-> D.transactions[t]]]

\* the rows the call has deleted inside its database transaction, on top of D
Removed(D, d) ==
  LET w1 == DeleteRows(D, d.gone)
  IN  IF d.rowGone THEN DeleteLoanRow(w1, d.loan, d.user) ELSE w1

RemovalEnded(d, code, err) ==
  Removal("done", d.user, d.loan, {}, FALSE, Error("DeleteLoan", code, err, NoArgs))

\* a call has inserted a transaction of loan l and has not committed yet
InsertPending(l) ==
  \E q \in Procs :
    proc[q].loan = l /\ proc[q].transactionID # NoTxn /\ proc[q].pc \in {"status", "commit"}

\* SELECT id FROM loans WHERE id = $1 AND user_id = $2
RemoveCheck(u) ==
  /\ removal.pc = "idle"
  /\ LET d == Removal("begin", u, SharedLoan, {}, FALSE, Idle)
     IN  \/ removal' = RemovalEnded(d, 500, "Failed to verify loan ownership")
         \/ /\ ~OwnedLoan(db, d.loan, u)
            /\ removal' = RemovalEnded(d, 404, "Loan not found")
         \/ /\ OwnedLoan(db, d.loan, u)
            /\ removal' = d
  /\ UNCHANGED <<db, issued, last, proc>>

\* h.db.Begin and DELETE FROM transactions WHERE loan_id = $1
RemoveTransactions ==
  /\ removal.pc = "begin"
  /\ \/ \E err \in {"Failed to begin transaction", "Failed to delete related transactions"} :
          removal' = RemovalEnded(removal, 500, err)
     \/ removal' = [removal EXCEPT !.pc = "loan",
                           !.gone = {t \in DOMAIN db.transactions :
                                       db.transactions[t].loan_id = removal.loan}]
  /\ UNCHANGED <<db, issued, last, proc>>

\* DELETE FROM loans WHERE id = $1 AND user_id = $2: waits for the calls that
\* hold the row, and fails when a committed transaction still references it
RemoveLoanRow ==
  /\ removal.pc = "loan"
  /\ LET work == Removed(db, [removal EXCEPT !.rowGone = TRUE])
     IN  \/ removal' = RemovalEnded(removal, 500, "Failed to delete loan")
         \/ /\ ~InsertPending(removal.loan)
            /\ ~RowLocked(0, removal.loan)
            /\ ForeignKeyHolds(work)
            /\ removal' = [removal EXCEPT !.pc = "commit", !.rowGone = TRUE]
  /\ UNCHANGED <<db, issued, last, proc>>

\* tx.Commit
RemoveCommit ==
  /\ removal.pc = "commit"
  /\ LET work == Removed(db, removal)
     IN  \/ /\ db' = Rollback(db, work)
            /\ removal' = RemovalEnded(removal, 500, "Failed to commit transaction")
         \/ /\ db' = Commit(db, work)
            /\ removal' = Removal("done", removal.user, removal.loan, {}, FALSE,
                              Resp("DeleteLoan", removal.loan, NoTxn, 0, 200, "", NoArgs))
  /\ UNCHANGED <<issued, last, proc>>

RemoveReturn ==
  /\ removal.pc = "done"
  /\ removal' = NoRemoval
  /\ UNCHANGED <<db, issued, last, proc>>

RemoveCheckStep == \E u \in Users : RemoveCheck(u)

\* the call of CreateTransaction that runs next to the removal
Payer == 1

PayerStep ==
  \/ \E u \in Users, amt \in Amounts : ReadTotals(Payer, u, amt)
  \/ CheckRemaining(Payer)
  \/ BeginInsert(Payer)
  \/ StatusStep(Payer)
  \/ CommitStep(Payer)
  \/ Return(Payer)

\* a loan that is removed while payments are recorded on it
NextRemove ==
  \/ FirstLoan
  \/ Respond
  \/ PayerStep
  \/ RemoveCheckStep
  \/ RemoveTransactions
  \/ RemoveLoanRow
  \/ RemoveCommit
  \/ RemoveReturn

SpecRemove == Init /\ [][NextRemove]_vars

\* ----------------------------------------- UpdateTransaction, step by step
\* A call of UpdateTransaction by the owner of the loan, with the loan in the
\* body, taking its two queries one at a time while other requests are
\* served.  The queries run on the connection pool; the statements between
\* h.db.Begin and tx.Commit are taken in one step.
Amender == 2

AmendCaller == 1

AmendEnded(c, code, err, args) ==
  Local("done", c.loan, c.amount, 0, 0, NoTxn, FALSE,
        Error("UpdateTransaction", code, err, args))

\* the validation of the body and the query that verifies the transaction
AmendCheck(t, amt) ==
  /\ proc[Amender].pc = "idle"
  /\ LET c == Local("details", SharedLoan, amt, 0, 0, t, FALSE, Idle)
     IN  \/ proc' = [proc EXCEPT ![Amender] =
                       AmendEnded(c, 500, "Failed to verify transaction", NoArgs)]
         \/ /\ ~OwnedTransaction(db, t, AmendCaller)
            /\ proc' = [proc EXCEPT ![Amender] =
                          AmendEnded(c, 404, "Transaction not found or access denied", NoArgs)]
         \/ /\ OwnedTransaction(db, t, AmendCaller)
            /\ proc' = [proc EXCEPT ![Amender] = c]
  /\ UNCHANGED <<db, issued, last, removal>>

\* the query for the loan amount and the total of the other transactions, the
\* two tests on the remaining debt and the payment date
AmendDetails ==
  /\ proc[Amender].pc = "details"
  /\ LET c == proc[Amender]
         t == c.transactionID
     IN  \/ proc' = [proc EXCEPT ![Amender] =
                       AmendEnded(c, 500, "Failed to get transaction details", NoArgs)]
         \/ /\ ~OwnedTransaction(db, t, AmendCaller)
            /\ proc' = [proc EXCEPT ![Amender] =
                          AmendEnded(c, 404, "Transaction not found or access denied", NoArgs)]
         \/ /\ OwnedTransaction(db, t, AmendCaller)
            /\ LET own == db.transactions[t].loan_id
                   loanAmountUpdate == db.loans[own].amount
                   currentTotalPaidUpdate == TotalPaidExcluding(db, own, t)
                   remainingDebtUpdate == loanAmountUpdate - currentTotalPaidUpdate
               IN  IF AlreadyPaid(remainingDebtUpdate)
                   THEN proc' = [proc EXCEPT ![Amender] =
                                   AmendEnded(c, 400, "This loan is already fully paid", NoArgs)]
                   ELSE IF ExceedsRemaining(c.amount, remainingDebtUpdate)
                   THEN proc' = [proc EXCEPT ![Amender] =
                                   AmendEnded(c, 400, "Payment amount exceeds remaining debt",
                                              <<Fmt2(c.amount), Fmt2(remainingDebtUpdate)>>)]
                   ELSE \/ proc' = [proc EXCEPT ![Amender] =
                                      AmendEnded(c, 400, "Invalid payment date format", NoArgs)]
                        \/ proc' = [proc EXCEPT ![Amender] =
                                      [c EXCEPT !.pc = "write",
                                                !.loanAmountCheck = loanAmountUpdate,
                                                !.currentTotalPaid = currentTotalPaidUpdate]]
  /\ UNCHANGED <<db, issued, last, removal>>

\* h.db.Begin, UPDATE transactions ... WHERE id = $6, the status statement,
\* tx.Commit and the query that fetches the updated transaction
AmendWrite ==
  /\ proc[Amender].pc = "write"
  /\ LET c == proc[Amender]
         t == c.transactionID
         newTotalPaidUpdate == c.currentTotalPaid + c.amount
         w1 == UpdateTransactionRow(db, t, c.loan, c.amount)
         w2 == UpdateStatusWrite(w1, c.loan, newTotalPaidUpdate, c.loanAmountCheck)
     IN  \/ /\ \E err \in {"Failed to begin transaction", "Failed to update transaction",
                           "Failed to update loan status", "Failed to revert loan status",
                           "Failed to commit transaction"} :
                 proc' = [proc EXCEPT ![Amender] = AmendEnded(c, 500, err, NoArgs)]
            /\ db' = Rollback(db, w2)
         \/ /\ ForeignKeyHolds(w1)
            /\ db' = Commit(db, w2)
            /\ \/ proc' = [proc EXCEPT ![Amender] =
                             Local("done", c.loan, c.amount, 0, 0, NoTxn, FALSE,
                                   Resp("UpdateTransaction", c.loan, t, c.amount,
                                        200, "", NoArgs))]
               \/ proc' = [proc EXCEPT ![Amender] =
                             AmendEnded(c, 500, "Failed to fetch updated transaction", NoArgs)]
  /\ UNCHANGED <<issued, last, removal>>

AmendReturn ==
  /\ proc[Amender].pc = "done"
  /\ proc' = [proc EXCEPT ![Amender] = NoCall]
  /\ UNCHANGED <<db, issued, last, removal>>

AmendCheckStep == \E t \in TxnIds, amt \in Amounts : AmendCheck(t, amt)

\* a payment that is amended while payments are recorded and revoked
NextAmend ==
  \/ FirstLoan
  \/ RecordPayment
  \/ RevokePayment
  \/ Respond
  \/ AmendCheckStep
  \/ AmendDetails
  \/ AmendWrite
  \/ AmendReturn

SpecAmend == Init /\ [][NextAmend]_vars

\* ------------------------------------------------------------ properties
LedgerOps == {"CreateTransaction", "UpdateTransaction", "DeleteTransaction"}

\* the paid total of loan l: the amounts of its transactions that are not deleted
Paid(D, l) ==
  SumOver(D.transactions,
          {t \in DOMAIN D.transactions :
             D.transactions[t].loan_id = l /\ D.transactions[t].deleted_at = FALSE})

PaidWithout(D, l, x) ==
  SumOver(D.transactions,
          {t \in DOMAIN D.transactions \ {x} :
             D.transactions[t].loan_id = l /\ D.transactions[t].deleted_at = FALSE})

\* the remaining debt of loan l
Remaining(D, l) == D.loans[l].amount - Paid(D, l)

\* the amount a message shows as baht.satang
Shown(f) == f[1] * 100 + f[2]

AlreadyPaidMsg == "This loan is already fully paid"
ExceedsMsg == "Payment amount exceeds remaining debt"

\* the status the engine is to leave on a loan whose paid total becomes newTotal
StatusRule(before, newTotal) ==
  IF newTotal >= before.amount THEN "completed"
  ELSE IF before.status = "completed" THEN "active"
  ELSE before.status

\* C1: after any sequence of payments recorded, amended and revoked one at a
\* time, the non-deleted transactions of every loan sum to at most its principal.
C1_PaidWithinPrincipal ==
  \A l \in DOMAIN db.loans : Paid(db, l) <= db.loans[l].amount

\* C2: after any such sequence a loan is 'completed' exactly when its
\* non-deleted transactions sum to at least its principal.
C2_CompletedIffPaid ==
  \A l \in DOMAIN db.loans :
    (db.loans[l].status = "completed") <=> (Paid(db, l) >= db.loans[l].amount)

\* C3: two RecordPayment requests on one loan whose steps interleave never
\* both pass the check on the same stale total: when both have finished, the
\* non-deleted transactions of the loan sum to at most its principal.
C3_ConcurrentWithinPrincipal ==
  (\A p \in Procs : proc[p].pc \in {"idle", "done"}) =>
    \A l \in DOMAIN db.loans : Paid(db, l) <= db.loans[l].amount

\* C4: when a write of the atomic sequence of a ledger operation fails (the
\* insert, update or soft delete, the status update after it, or the commit),
\* the tables read afterwards are the tables before the operation.
WriteFailures ==
  {"Failed to create transaction", "Failed to update transaction",
   "Failed to delete transaction", "Failed to update loan status",
   "Failed to revert loan status", "Failed to commit transaction"}

C4_FailedWriteRollsBack ==
  [][(last'.op \in LedgerOps /\ last'.err \in WriteFailures) => db' = db]_vars

\* the status update of a RecordPayment failed on a loan the payment would complete
C4_StatusUpdateFailed ==
  /\ last.op = "CreateTransaction"
  /\ last.err = "Failed to update loan status"
  /\ \E l \in DOMAIN db.loans : Remaining(db, l) > 0

\* C5: RecordPayment on an owned loan with remaining debt <= 0 fails with
\* AlreadyPaid for every positive amount, inserts nothing and changes no status.
C5_AlreadyPaidRejected ==
  last = Idle =>
    \A u \in Users, l \in DOMAIN db.loans, amt \in Amounts :
      (db.loans[l].user_id = u /\ Remaining(db, l) <= 0) =>
        LET outs == CreateTransactionOutcomes(db, issued, u, l, amt)
        IN  /\ \A o \in outs :
                 /\ o.db = db
                 /\ o.resp.err \in {AlreadyPaidMsg, "Failed to verify loan"}
            /\ \E o \in outs : o.resp.code = 400 /\ o.resp.err = AlreadyPaidMsg

\* a RecordPayment was refused on a loan that is paid in full
C5_RefusedOnPaidLoan ==
  /\ last.op = "CreateTransaction"
  /\ last.err = AlreadyPaidMsg
  /\ \E l \in DOMAIN db.loans : Remaining(db, l) <= 0 /\ db.loans[l].status = "completed"

C8_AmendStatusOnOwningLoan ==
  [][(last'.op = "UpdateTransaction" /\ last'.code = 200) =>
       LET t == last'.txn
           own == db.transactions[t].loan_id
           before == db.loans[own]
       IN  db'.loans[own].status =
             StatusRule(before, PaidWithout(db, own, t) + last'.amount)]_vars

\* C9: a successful RevokePayment marks the transaction deleted, so that the
\* paid total of the loan drops by its amount and no later total counts it,
\* and sets the status of the loan from the new total.
C9_RevokePaymentStatus ==
  [][/\ (last'.op = "DeleteTransaction" /\ last'.code = 200) =>
          LET t == last'.txn
              l == db.transactions[t].loan_id
              before == db.loans[l]
              newTotal == Paid(db, l) - db.transactions[t].amount
          IN  /\ ~db.transactions[t].deleted_at
              /\ db'.transactions[t].deleted_at
              /\ Paid(db', l) = newTotal
              /\ TotalPaid(db', l) = newTotal
              /\ db'.loans[l].status = StatusRule(before, newTotal)
     /\ \A t \in DOMAIN db.transactions :
          db.transactions[t].deleted_at =>
            (t \in DOMAIN db'.transactions /\ db'.transactions[t].deleted_at)]_vars

\* one of two payments of a completed loan was revoked: the loan is active
\* again and owes the revoked amount
C9_RevokedOneOfTwo ==
  /\ last.op = "DeleteTransaction"
  /\ last.code = 200
  /\ db.loans[last.loan].status = "active"
  /\ Paid(db, last.loan) > 0
  /\ Remaining(db, last.loan) = last.amount

\* C10: the total_paid that GetLoan and GetLoans report is the sum of the
\* loan's non-deleted transactions, and remaining_debt the principal minus it.
C10_ReadTotalsSkipDeleted ==
  /\ (last.op = "GetLoan" /\ last.code = 200) =>
       /\ last.args.total_paid = Paid(db, last.loan)
       /\ last.args.remaining_debt = Remaining(db, last.loan)
  /\ (last.op = "GetLoans" /\ last.code = 200) =>
       \A l \in DOMAIN last.args :
         /\ last.args[l].total_paid = Paid(db, l)
         /\ last.args[l].remaining_debt = Remaining(db, l)

\* no live transaction references a loan that is not in the loans table
NoOrphan(D) ==
  \A t \in DOMAIN D.transactions :
    ~D.transactions[t].deleted_at => D.transactions[t].loan_id \in DOMAIN D.loans

\* C11: RemoveLoan is all-or-nothing and leaves no orphan, also when its
\* steps interleave with RecordPayment on the loan: no live transaction ever
\* references a removed loan, a failed removal leaves the loan and its
\* transactions as they were, and a successful one removes all of them.
C11_RemoveLoanAllOrNothing ==
  [][/\ NoOrphan(db')
     /\ (removal.pc # "done" /\ removal'.pc = "done") =>
          IF removal'.resp.code = 200
          THEN /\ removal'.loan \notin DOMAIN db'.loans
               /\ \A t \in DOMAIN db'.transactions :
                    db'.transactions[t].loan_id # removal'.loan
          ELSE db' = db]_vars

\* the loan was removed after a call of RecordPayment had passed its checks
\* on it and before that call inserted its transaction
C11_RemovedUnderPayment ==
  /\ removal.pc = "done"
  /\ removal.resp.code = 200
  /\ issued.txn > 0
  /\ \E p \in Procs : proc[p].pc = "begin" /\ proc[p].loan = removal.loan

\* the loans and the transactions that were stored once and are removed
RemovedLoans(D, I) == (1..I.loan) \ DOMAIN D.loans

RemovedTransactions(D, I) == (1..I.txn) \ DOMAIN D.transactions

NotFoundOrStorage ==
  {"Loan not found", "Loan not found or access denied", "Transaction not found",
   "Transaction not found or access denied",
   "Failed to retrieve loan", "Failed to verify loan", "Failed to fetch transaction",
   "Failed to verify transaction", "Failed to get transaction details"}

\* every request on a removed loan or a removed transaction is answered
\* not-found (or fails on storage) and writes nothing; the lists leave them out
Unavailable(D, I) ==
  /\ \A l \in RemovedLoans(D, I), u \in Users :
       /\ \A o \in GetLoanOutcomes(D, I, u, l) \cup GetTransactionsByLoanOutcomes(D, I, u, l) :
            o.resp.code # 200 /\ o.resp.err \in NotFoundOrStorage /\ o.db = D
       /\ \E o \in GetLoanOutcomes(D, I, u, l) : o.resp.code = 404
       /\ \A o \in GetLoansOutcomes(D, I, u) :
            o.resp.code = 200 => l \notin DOMAIN o.resp.args
       /\ \A o \in GetTransactionsOutcomes(D, I, u, l) :
            o.resp.code = 200 => o.resp.args = {}
       /\ \A amt \in Amounts :
            /\ \A o \in CreateTransactionOutcomes(D, I, u, l, amt) :
                 o.resp.err \in NotFoundOrStorage /\ o.db = D
            /\ \E o \in CreateTransactionOutcomes(D, I, u, l, amt) :
                 o.resp.err = "Loan not found or access denied"
  /\ \A t \in RemovedTransactions(D, I), u \in Users :
       /\ \A o \in GetTransactionOutcomes(D, I, u, t) :
            o.resp.code # 200 /\ o.resp.err \in NotFoundOrStorage
       /\ \A o \in GetTransactionsOutcomes(D, I, u, NoLoan) :
            o.resp.code = 200 => t \notin o.resp.args
       /\ \A o \in DeleteTransactionOutcomes(D, I, u, t) :
            o.resp.err \in NotFoundOrStorage /\ o.db = D
       /\ \E o \in DeleteTransactionOutcomes(D, I, u, t) : o.resp.code = 404
       /\ \A b \in LoanIds \X Amounts :
            /\ \A o \in UpdateTransactionOutcomes(D, I, u, t, b[1], b[2]) :
                 o.resp.err \in NotFoundOrStorage /\ o.db = D
            /\ \E o \in UpdateTransactionOutcomes(D, I, u, t, b[1], b[2]) :
                 o.resp.code = 404

\* C12: after a successful RemoveLoan the loan and its transactions are gone
\* for good: every later read answers not-found or leaves them out, and every
\* later RecordPayment on the loan and AmendPayment or RevokePayment on its
\* transactions fails with not-found and writes nothing.
C12_RemovedStaysUnavailable ==
  [][/\ (last'.op = "DeleteLoan" /\ last'.code = 200) =>
          /\ last'.loan \in RemovedLoans(db', issued')
          /\ \A t \in DOMAIN db.transactions :
               db.transactions[t].loan_id = last'.loan =>
                 t \in RemovedTransactions(db', issued')
     /\ RemovedLoans(db, issued) \subseteq RemovedLoans(db', issued')
     /\ RemovedTransactions(db, issued) \subseteq RemovedTransactions(db', issued')
     /\ last' = Idle => Unavailable(db', issued')]_vars

\* a payment was refused on a loan that was removed with its two transactions
C12_PaymentOnRemovedLoan ==
  /\ last.op = "CreateTransaction"
  /\ last.err = "Loan not found or access denied"
  /\ RemovedLoans(db, issued) # {}
  /\ Cardinality(RemovedTransactions(db, issued)) >= 2

\* the status changes the ledger engine makes
EngineTransitions ==
  {<<"active", "completed">>, <<"overdue", "completed">>, <<"completed", "active">>}

\* C13: every status change made by RecordPayment, AmendPayment or
\* RevokePayment is active -> completed, overdue -> completed or
\* completed -> active; no ledger operation writes 'overdue'.
C13_EngineStatusChanges ==
  [][last'.op \in LedgerOps =>
       \A l \in DOMAIN db.loans :
         /\ l \in DOMAIN db'.loans
         /\ db'.loans[l].status # db.loans[l].status =>
              <<db.loans[l].status, db'.loans[l].status>> \in EngineTransitions]_vars

\* an amendment below the principal was accepted on an overdue loan, which
\* is still overdue
C13_AmendedOnOverdue ==
  /\ last.op = "UpdateTransaction"
  /\ last.code = 200
  /\ last.loan \in DOMAIN db.loans
  /\ db.loans[last.loan].status = "overdue"
  /\ Remaining(db, last.loan) > 0

\* the errors of a request that is malformed or breaks a rule of the ledger
ValidationErrors ==
  {"Loan ID is required", "Amount must be greater than 0", "Invalid payment date format"}

BusinessRuleErrors == {AlreadyPaidMsg, ExceedsMsg}

\* C14: a RecordPayment or AmendPayment that fails with a validation error or
\* a business-rule error is rejected before any write: the transactions and
\* the loans are the same before and after the request.
C14_RejectedBeforeWrite ==
  [][(/\ last'.op \in {"CreateTransaction", "UpdateTransaction"}
      /\ last'.err \in ValidationErrors \cup BusinessRuleErrors) =>
       (last'.code = 400 /\ db' = db /\ issued' = issued)]_vars

\* an amendment above the remaining debt was refused on a loan with payments
C14_AmendRefused ==
  /\ last.op = "UpdateTransaction"
  /\ last.err = ExceedsMsg
  /\ \E t \in DOMAIN db.transactions : ~db.transactions[t].deleted_at

\* ids of the right form that no row ever had
MissingLoan == MaxLoans + 1

MissingTxn == MaxTxns + 1

Responses(outcomes) == {o.resp : o \in outcomes}

Untouched(outcomes, D) == \A o \in outcomes : o.db = D

\* C15: for RecordPayment, AmendPayment, RevokePayment and RemoveLoan a request
\* that targets a loan or a transaction of another user has exactly the
\* outcomes of the same request on an id that does not exist, and changes
\* nothing.
C15_ForeignLooksMissing ==
  last = Idle =>
    \A u \in Users :
      /\ \A l \in {x \in DOMAIN db.loans : db.loans[x].user_id # u} :
           /\ \A amt \in Amounts :
                LET foreign == CreateTransactionOutcomes(db, issued, u, l, amt)
                    missing == CreateTransactionOutcomes(db, issued, u, MissingLoan, amt)
                IN  Responses(foreign) = Responses(missing) /\ Untouched(foreign, db)
           /\ LET foreign == DeleteLoanOutcomes(db, issued, u, l)
                  missing == DeleteLoanOutcomes(db, issued, u, MissingLoan)
              IN  Responses(foreign) = Responses(missing) /\ Untouched(foreign, db)
           /\ \A t \in DOMAIN db.transactions, amt \in Amounts :
                LET foreign == UpdateTransactionOutcomes(db, issued, u, t, l, amt)
                    missing == UpdateTransactionOutcomes(db, issued, u, t, MissingLoan, amt)
                IN  Responses(foreign) = Responses(missing) /\ Untouched(foreign, db)
      /\ \A t \in {x \in DOMAIN db.transactions :
                     db.loans[db.transactions[x].loan_id].user_id # u} :
           /\ LET foreign == DeleteTransactionOutcomes(db, issued, u, t)
                  missing == DeleteTransactionOutcomes(db, issued, u, MissingTxn)
              IN  Responses(foreign) = Responses(missing) /\ Untouched(foreign, db)
           /\ \A b \in LoanIds \X Amounts :
                LET foreign == UpdateTransactionOutcomes(db, issued, u, t, b[1], b[2])
                    missing == UpdateTransactionOutcomes(db, issued, u, MissingTxn, b[1], b[2])
                IN  Responses(foreign) = Responses(missing) /\ Untouched(foreign, db)

\* the storage failures CreateTransaction reports
RecordStorageErrors ==
  {"Failed to verify loan", "Failed to begin transaction",
   "Failed to create transaction", "Failed to update loan status",
   "Failed to commit transaction", "Failed to fetch created transaction"}

\* C16: RecordPayment answers 201 on success, 400 for AlreadyPaid,
\* ExceedsRemaining and validation failures, 404 for a loan that is missing or
\* not the caller's, and 500 for storage failures.
C16_RecordPaymentCodes ==
  last.op = "CreateTransaction" =>
    /\ last.err \in {""} \cup ValidationErrors \cup BusinessRuleErrors
                   \cup {"Loan not found or access denied"} \cup RecordStorageErrors
    /\ last.err = "" => last.code = 201
    /\ last.err \in ValidationErrors \cup BusinessRuleErrors => last.code = 400
    /\ last.err = "Loan not found or access denied" => last.code = 404
    /\ last.err \in RecordStorageErrors => last.code = 500

\* C17: ledger operations on one loan are serializable: whatever way the steps
\* of two concurrent operations interleave, once both have finished the paid
\* total of the loan is at most its principal and the loan is 'completed'
\* exactly when the total reaches the principal, as after a serial run.
C17_SerialOutcome ==
  (\A p \in Procs : proc[p].pc \in {"idle", "done"}) =>
    \A l \in DOMAIN db.loans :
      /\ Paid(db, l) <= db.loans[l].amount
      /\ (db.loans[l].status = "completed") <=> (Paid(db, l) >= db.loans[l].amount)

\* the transactions of loan l with their rows
TransactionsOf(D, l) ==
  {<<t, D.transactions[t]>> : t \in {x \in DOMAIN D.transactions :
                                       D.transactions[x].loan_id = l}}

\* the loan a ledger request that has just been answered was addressed to
Addressed(before, r) ==
  IF r.op \in {"UpdateTransaction", "DeleteTransaction"}
  THEN before.transactions[r.txn].loan_id
  ELSE r.loan

\* C18: an accepted RecordPayment, AmendPayment, RevokePayment or RemoveLoan
\* addressed to a loan or to one of its transactions leaves every other loan
\* as it was: its status, its principal and its transactions.
C18_OtherLoansUntouched ==
  [][(/\ last'.op \in LedgerOps \cup {"DeleteLoan"}
      /\ last'.code \in {200, 201}) =>
       \A b \in DOMAIN db.loans \ {Addressed(db, last')} :
         /\ b \in DOMAIN db'.loans
         /\ db'.loans[b] = db.loans[b]
         /\ TransactionsOf(db', b) = TransactionsOf(db, b)]_vars

\* C19: in every state reached by RecordPayment, AmendPayment, RevokePayment
\* and UpdateLoan, which may set a new principal, the paid total of a loan is
\* at most its current principal and the loan is 'completed' exactly when the
\* total reaches the current principal.
C19_InvariantAcrossLoanEdits ==
  last = Idle =>
    \A l \in DOMAIN db.loans :
      LET principal == db.loans[l].amount
      IN  /\ Paid(db, l) <= principal
          /\ (db.loans[l].status = "completed") <=> (Paid(db, l) >= principal)

\* C20: in every state reached by ledger operations and UpdateLoanStatus
\* requests a 'completed' loan is paid in full and an 'active' or 'overdue'
\* loan is not.
C20_StatusMatchesPayments ==
  last = Idle =>
    \A l \in DOMAIN db.loans :
      /\ db.loans[l].status = "completed" => Remaining(db, l) <= 0
      /\ db.loans[l].status \in {"active", "overdue"} => Remaining(db, l) > 0

\* C21: AmendPayment on an owned transaction measures the new amount against
\* remaining_excl, the principal less the other non-deleted transactions of
\* the loan: it is refused with AlreadyPaid when remaining_excl <= 0, with
\* ExceedsRemaining when the new amount is above remaining_excl, and is
\* accepted otherwise, whatever the current amount of the transaction.
PreCheckFailures ==
  {"Failed to verify transaction", "Failed to get transaction details"}

C22_AmendKeepsLoan ==
  [][(last'.op = "UpdateTransaction" /\ last'.code = 200) =>
       LET t == last'.txn
           own == db.transactions[t].loan_id
       IN  /\ db'.transactions[t].loan_id = own
           /\ db'.transactions[t].deleted_at = db.transactions[t].deleted_at
           /\ db'.loans[own].status =
                StatusRule(db.loans[own], PaidWithout(db, own, t) + last'.amount)
           /\ \A b \in DOMAIN db.loans \ {own} : db'.loans[b] = db.loans[b]]_vars

\* C23: no RecordPayment, AmendPayment, RevokePayment or RemoveLoan request of
\* a user changes what another user owns: the loans of the other user and the
\* transactions that reference them (which ones, their amounts, loan
\* references and delete markers) are the same after the request, so no
\* transaction the caller creates or amends references a loan of the other.
LoansOf(D, v) == {l \in DOMAIN D.loans : D.loans[l].user_id = v}

LedgerOf(D, v) ==
  [loans |-> {<<l, D.loans[l]>> : l \in LoansOf(D, v)},
   transactions |-> {<<t, D.transactions[t]>> :
                       t \in {x \in DOMAIN D.transactions :
                                D.transactions[x].loan_id \in LoansOf(D, v)}}]

RequestsOf(D, I, u) ==
  UNION ({CreateTransactionOutcomes(D, I, u, b[1], b[2]) : b \in PaymentBodies}
         \cup {UpdateTransactionOutcomes(D, I, u, x[1], x[2][1], x[2][2]) :
                 x \in TxnIds \X PaymentBodies}
         \cup {DeleteTransactionOutcomes(D, I, u, t) : t \in TxnIds}
         \cup {DeleteLoanOutcomes(D, I, u, l) : l \in LoanIds})

C23_UsersIsolated ==
  last = Idle =>
    \A u \in Users, v \in Users :
      u # v => \A o \in RequestsOf(db, issued, u) : LedgerOf(o.db, v) = LedgerOf(db, v)

\* C24: every stored transaction, deleted or not, has an amount above zero:
\* RecordPayment and AmendPayment refuse an amount <= 0 and leave the tables
\* as they were, and no other operation changes the amount of a transaction.
AmountMsg == "Amount must be greater than 0"

C24_AmountsPositive ==
  [][/\ \A t \in DOMAIN db'.transactions : db'.transactions[t].amount > 0
     /\ (last'.op \in LedgerOps /\ last'.err = AmountMsg) => db' = db
     /\ last'.op \notin {"CreateTransaction", "UpdateTransaction"} =>
          \A t \in DOMAIN db.transactions \cap DOMAIN db'.transactions :
            db'.transactions[t].amount = db.transactions[t].amount]_vars

\* an amendment to amount 0 was refused while a revoked payment is stored
C24_ZeroAmendRefused ==
  /\ last.op = "UpdateTransaction"
  /\ last.err = AmountMsg
  /\ \E t \in DOMAIN db.transactions : db.transactions[t].deleted_at

\* C25: RevokePayment and AmendPayment on a transaction that is already
\* soft-deleted fail with not-found and change nothing, so that a second
\* revocation of a transaction leaves what the first one left.
NotFoundMsg == "Transaction not found or access denied"

C25_DeletedIsNotFound ==
  last = Idle =>
    \A u \in Users, t \in DOMAIN db.transactions :
      db.transactions[t].deleted_at =>
        LET revoke == DeleteTransactionOutcomes(db, issued, u, t)
            amend == UNION {UpdateTransactionOutcomes(db, issued, u, t, l, amt) :
                              l \in LoanIds, amt \in Amounts}
        IN  /\ \A o \in revoke \cup amend :
                 /\ o.db = db
                 /\ o.resp.err \in PreCheckFailures \cup {NotFoundMsg}
            /\ \E o \in revoke : o.resp.code = 404 /\ o.resp.err = NotFoundMsg
            /\ \E o \in amend : o.resp.code = 404 /\ o.resp.err = NotFoundMsg

\* a RevokePayment was answered not-found when every payment had been revoked
C25_RevokedAgain ==
  /\ last.op = "DeleteTransaction"
  /\ last.code = 404
  /\ DOMAIN db.transactions = TxnIds
  /\ \A t \in TxnIds : db.transactions[t].deleted_at
  /\ \E l \in DOMAIN db.loans : db.loans[l].status = "active"

\* C26: RecordPayment, AmendPayment and RevokePayment, accepted or refused,
\* leave the principal of every loan as it was: of a loan row they write the
\* status only.
C26_PrincipalUntouched ==
  [][last'.op \in LedgerOps =>
       /\ DOMAIN db'.loans = DOMAIN db.loans
       /\ \A l \in DOMAIN db.loans :
            db'.loans[l] = [db.loans[l] EXCEPT !.status = db'.loans[l].status]]_vars

\* a payment has completed a loan of the largest principal
C26_CompletedAtPrincipal ==
  /\ last.op = "CreateTransaction"
  /\ last.code = 201
  /\ db.loans[last.loan].status = "completed"
  /\ db.loans[last.loan].amount = MaxAmt * Unit

\* C27: a read of a loan changes nothing that is stored, and a second read
\* made right after it returns the same total_paid and remaining_debt (and
\* status and principal) as the first.
C27_ReadsRepeatable ==
  [][/\ last'.op \in {"GetLoan", "GetLoans"} => db' = db /\ issued' = issued
     /\ (last'.op = "GetLoan" /\ last'.code = 200) =>
          \A u \in Users :
            \A o \in GetLoanOutcomes(db', issued', u, last'.loan) :
              /\ o.db = db'
              /\ o.resp.code = 200 => o.resp.args = last'.args
     /\ (last'.op = "GetLoans" /\ last'.code = 200) =>
          \E u \in Users :
            \A o \in GetLoansOutcomes(db', issued', u) :
              /\ o.db = db'
              /\ o.resp.code = 200 => o.resp.args = last'.args]_vars

\* a loan was read while part of it was paid
C27_ReadPartlyPaid ==
  /\ last.op = "GetLoan"
  /\ last.code = 200
  /\ last.args.total_paid > 0
  /\ last.args.remaining_debt > 0

\* C28: a soft-deleted transaction is final under every interleaving: no step
\* changes its amount or its loan reference or clears its delete marker, and
\* no step marks a loan 'completed' that its non-deleted transactions do not
\* pay in full.
C28_DeletedIsFinal ==
  [][/\ \A t \in DOMAIN db.transactions :
          db.transactions[t].deleted_at =>
            /\ t \in DOMAIN db'.transactions
            /\ db'.transactions[t] = db.transactions[t]
     /\ \A l \in DOMAIN db.loans \cap DOMAIN db'.loans :
          (db.loans[l].status # "completed" /\ db'.loans[l].status = "completed") =>
            Paid(db', l) >= db'.loans[l].amount]_vars

\* C29: a RecordPayment followed at once by the RevokePayment of the
\* transaction it created leaves the paid total and the status of the loan
\* as they were before the payment, whatever the status was.
C29_PayAndRevokeRoundTrip ==
  last = Idle =>
    \A u \in Users, l \in DOMAIN db.loans, amt \in Amounts :
      \A paid \in CreateTransactionOutcomes(db, issued, u, l, amt) :
        paid.resp.code = 201 =>
          \A revoked \in DeleteTransactionOutcomes(paid.db, paid.issued, u, paid.resp.txn) :
            revoked.resp.code = 200 =>
              /\ Paid(revoked.db, l) = Paid(db, l)
              /\ revoked.db.loans[l].status = db.loans[l].status
====
